---------------------------- MODULE Spec2Model ----------------------------
(***************************************************************************)
(* State-machine model of the question-bank session of QuestionBankApp     *)
(* (src/unnamed/part_000): the React state of the component, the snapshot  *)
(* kept in localStorage under STORAGE_KEY, and the handlers that change    *)
(* them.  One action per handler; the persist effect (lines 163-173) runs  *)
(* after every render whose persisted fields changed and is therefore part *)
(* of every action.  State updates made by one handler are applied         *)
(* together (one render per event; the continuation of handleImportJSON    *)
(* after its await is one batched update).                                 *)
(*                                                                         *)
(* JavaScript values are encoded so that every field keeps one TLA+ type:  *)
(*   - a missing / null field of a decoded JSON value is a string token;   *)
(*   - a JS number that may be non-finite is a record [finite, val];       *)
(*   - an object key lookup distinguishes own from inherited properties.   *)
(* savedAt (Date.now()) is not modelled: nothing reads it.                 *)
(***************************************************************************)
EXTENDS Integers, Sequences, FiniteSets, TLC

-----------------------------------------------------------------------------
(* Bounds of the model *)

\* handleCheck records no further answer once the totals of the stats add up
\* to this value
MaxAnswers == 2

\* number of file reads that may be in flight at once
MaxPending == 2

\* the helper functions are called on their own with lengths up to this value
MaxLength == 8

\* and with arrays of up to this many elements, drawn from 1..MaxShuffleLen
MaxShuffleLen == 3

-----------------------------------------------------------------------------
(* JavaScript values *)

\* a property that is absent from an object
Undefined == "<undefined>"

\* the JSON value null
JSONNull == "<null>"

\* selected === null
NoSelection == -1

Max(a, b) == IF a >= b THEN a ELSE b

Min(a, b) == IF a <= b THEN a ELSE b

\* a finite JS number
Num(n) == [finite |-> TRUE, val |-> n]

\* what Number.isFinite rejects: Infinity (JSON.parse("1e999")), or a value
\* that is no number at all (missing, null, a string)
NotFinite == [finite |-> FALSE, val |-> 0]

\* ids whose typeof is "number"; "Infinity" is what JSON.parse gives for 1e999
NumberIds == {"1", "2", "3", "4", "Infinity"}

\* ids whose typeof is "string"
StringIds == {"q-a"}

TypeofId(id) ==
    IF id \in NumberIds THEN "number"
    ELSE IF id \in StringIds THEN "string"
    ELSE IF id = JSONNull THEN "object"
    ELSE "undefined"

\* typeof v === "string" for the text fields (topic, stem, explanation)
IsString(v) == v \notin {Undefined, JSONNull}

\* a well-shaped question object
Question(id, topic, n, answer) ==
    [obj |-> TRUE, id |-> id, topic |-> topic, stem |-> "stem",
     choices |-> "strings", nChoices |-> n,
     answerKind |-> "finite", answer |-> answer, explanation |-> "expl"]

Seed1 == Question("1", "Physiology", 5, 3)

Seed2 == Question("2", "Coronary Physiology", 5, 3)

initialQuestions == <<Seed1, Seed2>>

\* questions a user may import
ImpA == Question("q-a", "Valves", 4, 0)

ImpB == Question("3", "Valves", 4, 3)

\* "id": 1e999 parses to the number Infinity
ImpInf == Question("Infinity", "Physiology", 4, 0)

\* a topic that names a member of Object.prototype
ImpCtor == Question("4", "constructor", 4, 3)

\* candidates the Validator has to reject
BadHigh == [ImpA EXCEPT !.answer = 99]

BadNeg == [ImpA EXCEPT !.answer = -1]

BadNoChoices == [ImpA EXCEPT !.nChoices = 0]

BadTopic == [ImpA EXCEPT !.topic = Undefined]

BadId == [ImpA EXCEPT !.id = JSONNull]

BadNull == [ImpA EXCEPT !.obj = FALSE]

-----------------------------------------------------------------------------
(* Pure functions *)

\* mutant of isValidQuestion: q.answer < q.choices.length is not tested
isValidQuestionNoUpper(q) ==
    /\ q.obj
    /\ TypeofId(q.id) \in {"number", "string"}
    /\ IsString(q.topic)
    /\ IsString(q.stem)
    /\ q.choices = "strings"
    /\ q.answerKind = "finite"
    /\ q.answer >= 0
    /\ IsString(q.explanation)

isValidQuestion(q) ==
    /\ q.obj
    /\ TypeofId(q.id) \in {"number", "string"}
    /\ IsString(q.topic)
    /\ IsString(q.stem)
    /\ q.choices \in {"strings", "mixed"}
    /\ q.choices = "strings"
    /\ q.answerKind \in {"finite", "nonfinite"}
    /\ q.answerKind = "finite"
    /\ q.answer >= 0
    /\ q.answer < q.nChoices
    /\ IsString(q.explanation)

\* imported.every(isValidQuestion)
EveryValid(arr) == \A i \in DOMAIN arr : isValidQuestion(arr[i])

\* mutant of Swap: out[i] = out[j] without keeping the old out[i]
SwapOverwrite(out, i, j) == [out EXCEPT ![i + 1] = out[j + 1]]

\* [out[i], out[j]] = [out[j], out[i]] with 0-based i, j
Swap(out, i, j) ==
    [k \in DOMAIN out |->
        IF k = i + 1 THEN out[j + 1]
        ELSE IF k = j + 1 THEN out[i + 1]
        ELSE out[k]]

\* the loop of shuffleArray from index i down to 1: every result the random
\* draws j in 0..i can produce
RECURSIVE FisherYates(_, _)
FisherYates(out, i) ==
    IF i <= 0 THEN {out}
    ELSE UNION { FisherYates(Swap(out, i, j), i - 1) : j \in 0..i }

\* the set of arrays shuffleArray(arr) may return
shuffleArray(arr) == FisherYates(arr, Len(arr) - 1)

\* mutant of clampIndex: the upper limit is forgotten
clampIndexNoUpper(idx, length) ==
    IF ~idx.finite \/ length <= 0 THEN 0
    ELSE Max(0, idx.val)

\* mutant of clampIndex: the lower limit is forgotten
clampIndexNoLower(idx, length) ==
    IF ~idx.finite \/ length <= 0 THEN 0
    ELSE Min(idx.val, length - 1)

clampIndex(idx, length) ==
    IF ~idx.finite \/ length <= 0 THEN 0
    ELSE Max(0, Min(idx.val, length - 1))

-----------------------------------------------------------------------------
(* TopicStats: an object (or, adopted from a snapshot, an array) whose own  *)
(* properties are entries {correct, total}                                  *)

\* a stats entry; num tells what its two numbers are: "int" (the integers
\* correct and total), "NaN" (both NaN), "null" (both null, as JSON.parse
\* gives them back after JSON.stringify wrote NaN)
Entry(c, t) == [correct |-> c, total |-> t, num |-> "int"]

NaNEntry == [correct |-> 0, total |-> 0, num |-> "NaN"]

NullEntry == [correct |-> 0, total |-> 0, num |-> "null"]

\* the members every object inherits from Object.prototype, among the topics
\* of the model
ObjectPrototypeKeys == {"constructor"}

\* what prev["constructor"] finds on an object without that own property:
\* a truthy object whose total and correct are undefined
InheritedMember == [correct |-> 0, total |-> 0, num |-> "undefined"]

NoEntries == [k \in {} |-> Entry(0, 0)]

\* useState<TopicStats>({})
EmptyStats == [array |-> FALSE, entries |-> NoEntries]

\* prev[q.topic] || { correct: 0, total: 0 }
topicStatsOf(prev, topic) ==
    IF topic \in DOMAIN prev.entries THEN prev.entries[topic]
    ELSE IF topic \in ObjectPrototypeKeys THEN InheritedMember
    ELSE Entry(0, 0)

\* { total: topicStats.total + 1, correct: topicStats.correct + (isCorrect ? 1 : 0) }
\* undefined + 1 and NaN + 1 are NaN; null + 1 is 1
incremented(topicStats, isCorrect) ==
    LET one == IF isCorrect THEN 1 ELSE 0 IN
    IF topicStats.num = "int"
      THEN Entry(topicStats.correct + one, topicStats.total + 1)
    ELSE IF topicStats.num = "null" THEN Entry(one, 1)
    ELSE NaNEntry

\* the number of answers the stats have recorded (NaN and null count 0)
RECURSIVE SumTotals(_, _)
SumTotals(entries, keys) ==
    IF keys = {} THEN 0
    ELSE LET k == CHOOSE x \in keys : TRUE
             t == IF entries[k].num = "int" THEN Max(0, entries[k].total) ELSE 0
         IN t + SumTotals(entries, keys \ {k})

AnswersRecorded(s) == SumTotals(s.entries, DOMAIN s.entries)

\* the setStats updater of handleCheck: { ...prev, [q.topic]: {...} }
recordAnswer(prev, topic, isCorrect) ==
    [array |-> FALSE,
     entries |-> [k \in DOMAIN prev.entries \cup {topic} |->
                    IF k = topic
                      THEN incremented(topicStatsOf(prev, topic), isCorrect)
                      ELSE prev.entries[k]]]

-----------------------------------------------------------------------------
(* The persisted snapshot, as JSON.parse gives it back *)

\* JSON.stringify writes a non-finite number as null
stringifyQuestion(q) ==
    [q EXCEPT !.id = IF q.id = "Infinity" THEN JSONNull ELSE q.id]

stringifyEntry(e) == IF e.num = "NaN" THEN NullEntry ELSE e

\* JSON.parse(JSON.stringify(payload)) for the payload of the persist effect
JSONRoundTrip(payload) ==
    [raw |-> "object",
     bankKind |-> "array",
     questionBank |-> [i \in DOMAIN payload.questionBank |->
                          stringifyQuestion(payload.questionBank[i])],
     index |-> Num(payload.index),
     showAccuracy |-> IF payload.showAccuracy THEN "true" ELSE "false",
     statsKind |-> IF payload.stats.array THEN "array" ELSE "object",
     stats |-> [k \in DOMAIN payload.stats.entries |->
                   stringifyEntry(payload.stats.entries[k])],
     schemaVersion |-> payload.schemaVersion]

\* a stored value that is no JSON object: nothing stored ("absent"), text
\* that does not parse, or a JSON scalar
NonObjectSnapshot(raw) ==
    [raw |-> raw, bankKind |-> "missing", questionBank |-> <<>>,
     index |-> NotFinite, showAccuracy |-> "missing",
     statsKind |-> "missing", stats |-> NoEntries, schemaVersion |-> 0]

\* the questionBank field of a stored object: <<kind, elements>>
SnapshotBanks ==
    { <<"missing", <<>>>>, <<"other", <<>>>>, <<"array", <<>>>>,
      <<"array", <<Seed2, Seed1>>>>, <<"array", <<Seed1, BadHigh>>>> }

\* the index field of a stored object: none of them is a valid index above 0,
\* so a session that starts at an index above 0 got it from clampIndex
SnapshotIndexes == {NotFinite, Num(-1), Num(7)}

SnapshotFlags == {"missing", "true", "false", "other"}

\* the stats field of a stored object: <<kind, entries>>; the array is
\* [{"correct": 1, "total": 1}], whose one own property is "0"
SnapshotStats ==
    { <<"missing", NoEntries>>, <<"null", NoEntries>>,
      <<"array", [k \in {"0"} |-> Entry(1, 1)]>>,
      <<"object", [k \in {"Physiology"} |-> Entry(2, 1)]>> }

\* what localStorage may hold under STORAGE_KEY when the component mounts
InitialSnapshots ==
    { NonObjectSnapshot(r) : r \in {"absent", "unparsable", "scalar"} }
    \cup
    { [raw |-> "object", bankKind |-> b[1], questionBank |-> b[2],
       index |-> i, showAccuracy |-> f,
       statsKind |-> s[1], stats |-> s[2], schemaVersion |-> 1] :
         b \in SnapshotBanks, i \in SnapshotIndexes,
         f \in SnapshotFlags, s \in SnapshotStats }

-----------------------------------------------------------------------------
(* Import files *)

\* kind: "unreadable" (file.text() rejects), "unparsable" (JSON.parse
\* throws), "scalar" (a JSON number, string, boolean or null), "object" (an
\* object without a questions array), "wrapped" ({questions: [...]}),
\* "array" (a top-level array)
File(kind, questions) == [kind |-> kind, questions |-> questions]

ImportFiles ==
    { File("unreadable", <<>>), File("unparsable", <<>>),
      File("object", <<>>), File("array", <<>>),
      File("wrapped", <<ImpA, ImpB>>), File("array", <<ImpInf, ImpCtor>>),
      File("array", <<ImpA, BadHigh>>), File("wrapped", <<BadNeg>>) }

\* no file: the operation invoked last read none
NoFile == File("none", <<>>)

\* the history record of an operation that reads no file
Op(name) == [op |-> name, file |-> NoFile]

ErrStructure ==
    "Import failed: JSON must be an array of questions (or { questions: [...] })."

ErrSchema ==
    "Import failed: One or more questions are missing required fields (topic/stem/choices/answer/explanation)."

ErrRead == "Import failed: Could not read/parse the JSON file."

-----------------------------------------------------------------------------
(* State *)

VARIABLES
    mounted,          \* the mount effects (hydrate, first persist) have run
    storage,          \* localStorage[STORAGE_KEY], as JSON.parse reads it
    questionBank,     \* useState: the active bank
    index,            \* useState: the current index
    selected,         \* useState: the selected choice, or NoSelection
    showAnswer,       \* useState: the answer is revealed
    showExplanation,  \* useState: the explanation is visible
    stats,            \* useState: TopicStats
    showAccuracy,     \* useState: the accuracy panel is visible
    importError,      \* useState: the last import error message, or ""
    pending,          \* the number of file.text() reads not yet resolved
    lastOp,           \* history: the handler invoked last, and the file it
                      \* read if it is the resumption of an import
    call              \* history: the last call of a helper function made on
                      \* its own (as runDevTests makes them), with its
                      \* arguments and its result

vars == <<mounted, storage, questionBank, index, selected, showAnswer,
          showExplanation, stats, showAccuracy, importError, pending, lastOp,
          call>>

\* no helper function has been called on its own
NoCall == [fn |-> "none"]

\* const totalQuestions = questionBank.length
totalQuestions == Len(questionBank)

\* const q = questionBank[clampIndex(index, totalQuestions)] is defined
HasQuestion == totalQuestions > 0

\* q, where it is defined
q == questionBank[clampIndex(Num(index), totalQuestions) + 1]

\* disabled={selected === null || showAnswer} of the Check Answer button
CheckButtonDisabled == selected = NoSelection \/ showAnswer

\* the choice buttons the model presses
ChoiceInputs == {0, 3}

\* the payload of the persist effect for the next render
Payload ==
    [questionBank |-> questionBank', index |-> index',
     showAccuracy |-> showAccuracy', stats |-> stats', schemaVersion |-> 1]

\* the persist effect: it runs after the first render and after every render
\* in which questionBank, index, showAccuracy or stats changed
Persist(firstRender) ==
    storage' =
        IF firstRender
           \/ <<questionBank', index', showAccuracy', stats'>>
                /= <<questionBank, index, showAccuracy, stats>>
          THEN JSONRoundTrip(Payload)
          ELSE storage

\* resetPerQuestionUI
resetPerQuestionUI ==
    /\ selected' = NoSelection
    /\ showAnswer' = FALSE
    /\ showExplanation' = FALSE

\* the state the hydrate effect leaves, for the stored snapshot snap and the
\* bank bank0 the component was constructed with
Hydrated(snap, bank0) ==
    LET isObject == snap.raw = "object"
        bankOk == /\ isObject
                  /\ snap.bankKind = "array"
                  /\ EveryValid(snap.questionBank)
    IN [questionBank |-> IF bankOk THEN snap.questionBank ELSE bank0,
        index |-> IF bankOk
                    THEN clampIndex(snap.index, Len(snap.questionBank))
                    ELSE 0,
        showAccuracy |-> IF isObject /\ snap.showAccuracy \in {"true", "false"}
                           THEN snap.showAccuracy = "true"
                           ELSE FALSE,
        stats |-> IF isObject /\ snap.statsKind \in {"object", "array"}
                    THEN [array |-> snap.statsKind = "array",
                          entries |-> snap.stats]
                    ELSE EmptyStats]

\* the state after construction: the useState initialisers, before any effect
Init ==
    /\ mounted = FALSE
    /\ storage \in InitialSnapshots
    /\ questionBank \in shuffleArray(initialQuestions)
    /\ index = 0
    /\ selected = NoSelection
    /\ showAnswer = FALSE
    /\ showExplanation = FALSE
    /\ stats = EmptyStats
    /\ showAccuracy = FALSE
    /\ importError = ""
    /\ pending = 0
    /\ lastOp = Op("construct")
    /\ call = NoCall

-----------------------------------------------------------------------------
(* Operations *)

\* Load: the hydrate effect and the first persist effect of a new session
Load ==
    /\ ~mounted
    /\ mounted' = TRUE
    /\ LET h == Hydrated(storage, questionBank) IN
         /\ questionBank' = h.questionBank
         /\ index' = h.index
         /\ showAccuracy' = h.showAccuracy
         /\ stats' = h.stats
    /\ Persist(TRUE)
    /\ lastOp' = Op("load")
    /\ UNCHANGED call
    /\ UNCHANGED <<selected, showAnswer, showExplanation, importError, pending>>

\* the page is reloaded: a new component is constructed and mounted on the
\* snapshot the old one left; file reads of the old page are gone
Reload ==
    /\ mounted
    /\ \E bank0 \in shuffleArray(initialQuestions) :
         LET h == Hydrated(storage, bank0) IN
           /\ questionBank' = h.questionBank
           /\ index' = h.index
           /\ showAccuracy' = h.showAccuracy
           /\ stats' = h.stats
    /\ resetPerQuestionUI
    /\ importError' = ""
    /\ pending' = 0
    /\ Persist(TRUE)
    /\ lastOp' = Op("reload")
    /\ UNCHANGED call
    /\ UNCHANGED mounted

\* mutant of SelectChoice: setSelected(i) without the test of showAnswer
SelectChoiceAlways(i) ==
    /\ mounted
    /\ HasQuestion
    /\ i < q.nChoices
    /\ selected' = i
    /\ lastOp' = Op("select")
    /\ UNCHANGED call
    /\ UNCHANGED <<mounted, storage, questionBank, index, showAnswer,
                   showExplanation, stats, showAccuracy, importError, pending>>

\* a choice button: if (!showAnswer) setSelected(i)
SelectChoice(i) ==
    /\ mounted
    /\ HasQuestion
    /\ i < q.nChoices
    /\ selected' = IF showAnswer THEN selected ELSE i
    /\ lastOp' = Op("select")
    /\ UNCHANGED call
    /\ UNCHANGED <<mounted, storage, questionBank, index, showAnswer,
                   showExplanation, stats, showAccuracy, importError, pending>>

\* mutant of handleCheck: setShowExplanation(false) is forgotten
handleCheckKeepsExplanation ==
    /\ mounted
    /\ IF ~HasQuestion \/ selected = NoSelection
         THEN UNCHANGED <<showAnswer, showExplanation, stats>>
         ELSE /\ AnswersRecorded(stats) < MaxAnswers
              /\ showAnswer' = TRUE
              /\ UNCHANGED showExplanation
              /\ stats' = recordAnswer(stats, q.topic, selected = q.answer)
    /\ lastOp' = Op("check")
    /\ UNCHANGED call
    /\ UNCHANGED <<mounted, questionBank, index, selected, showAccuracy,
                   importError, pending>>
    /\ Persist(FALSE)

handleCheck ==
    /\ mounted
    /\ IF ~HasQuestion \/ selected = NoSelection
         THEN UNCHANGED <<showAnswer, showExplanation, stats>>
         ELSE /\ AnswersRecorded(stats) < MaxAnswers
              /\ showAnswer' = TRUE
              /\ showExplanation' = FALSE
              /\ stats' = recordAnswer(stats, q.topic, selected = q.answer)
    /\ lastOp' = Op("check")
    /\ UNCHANGED call
    /\ UNCHANGED <<mounted, questionBank, index, selected, showAccuracy,
                   importError, pending>>
    /\ Persist(FALSE)

\* the Show/Hide Explanation button; the button and its handler exist only
\* in the block rendered under showAnswer
ToggleExplanation ==
    /\ mounted
    /\ HasQuestion
    /\ showAnswer
    /\ showExplanation' = ~showExplanation
    /\ lastOp' = Op("toggleExplanation")
    /\ UNCHANGED call
    /\ UNCHANGED <<mounted, storage, questionBank, index, selected, showAnswer,
                   stats, showAccuracy, importError, pending>>

\* the Show/Hide Accuracy button; it is rendered only while there is a
\* current question
ToggleAccuracy ==
    /\ mounted
    /\ HasQuestion
    /\ showAccuracy' = ~showAccuracy
    /\ lastOp' = Op("toggleAccuracy")
    /\ UNCHANGED call
    /\ UNCHANGED <<mounted, questionBank, index, selected, showAnswer,
                   showExplanation, stats, importError, pending>>
    /\ Persist(FALSE)

\* mutant of handleNext: the index stops at the last question instead of
\* wrapping to 0
handleNextNoWrap ==
    /\ mounted
    /\ IF totalQuestions <= 0
         THEN UNCHANGED <<index, selected, showAnswer, showExplanation>>
         ELSE /\ index' = Min(index + 1, totalQuestions - 1)
              /\ resetPerQuestionUI
    /\ lastOp' = Op("next")
    /\ UNCHANGED call
    /\ UNCHANGED <<mounted, questionBank, stats, showAccuracy, importError,
                   pending>>
    /\ Persist(FALSE)

handleNext ==
    /\ mounted
    /\ IF totalQuestions <= 0
         THEN UNCHANGED <<index, selected, showAnswer, showExplanation>>
         ELSE /\ index' = (index + 1) % totalQuestions
              /\ resetPerQuestionUI
    /\ lastOp' = Op("next")
    /\ UNCHANGED call
    /\ UNCHANGED <<mounted, questionBank, stats, showAccuracy, importError,
                   pending>>
    /\ Persist(FALSE)

\* mutant of handleResetProgress: setStats({}) is forgotten
handleResetProgressKeepsStats ==
    /\ mounted
    /\ index' = 0
    /\ resetPerQuestionUI
    /\ lastOp' = Op("reset")
    /\ UNCHANGED call
    /\ UNCHANGED <<mounted, questionBank, stats, showAccuracy, importError,
                   pending>>
    /\ Persist(FALSE)

handleResetProgress ==
    /\ mounted
    /\ index' = 0
    /\ resetPerQuestionUI
    /\ stats' = EmptyStats
    /\ lastOp' = Op("reset")
    /\ UNCHANGED call
    /\ UNCHANGED <<mounted, questionBank, showAccuracy, importError, pending>>
    /\ Persist(FALSE)

handleShuffle ==
    /\ mounted
    /\ questionBank' \in shuffleArray(questionBank)
    /\ index' = 0
    /\ resetPerQuestionUI
    /\ lastOp' = Op("shuffle")
    /\ UNCHANGED call
    /\ UNCHANGED <<mounted, stats, showAccuracy, importError, pending>>
    /\ Persist(FALSE)

\* handleImportJSON(file) up to its await: setImportError(""), then, if a
\* file was chosen, file.text(); what the file holds is known when the read
\* resolves
ImportStart(hasFile) ==
    /\ mounted
    /\ hasFile => pending < MaxPending
    /\ importError' = ""
    /\ pending' = IF hasFile THEN pending + 1 ELSE pending
    /\ lastOp' = Op("importStart")
    /\ UNCHANGED call
    /\ UNCHANGED <<mounted, storage, questionBank, index, selected, showAnswer,
                   showExplanation, stats, showAccuracy>>

\* const imported = Array.isArray(data) ? data : data?.questions, with
\* Array.isArray(imported); safeParseJSON gives null for text that does not
\* parse
IsImportedArray(file) == file.kind \in {"array", "wrapped"}

\* mutant of ImportOutcome: imported.every(isValidQuestion) is not checked
ImportOutcomeNoSchemaCheck(file) ==
    IF file.kind = "unreadable" THEN "read"
    ELSE IF ~IsImportedArray(file) \/ Len(file.questions) = 0 THEN "structure"
    ELSE "ok"

\* the outcome of handleImportJSON after its await, for the file read:
\* "read" (the catch block), "structure", "schema", or "ok"
ImportOutcome(file) ==
    IF file.kind = "unreadable" THEN "read"
    ELSE IF ~IsImportedArray(file) \/ Len(file.questions) = 0 THEN "structure"
    ELSE IF ~EveryValid(file.questions) THEN "schema"
    ELSE "ok"

\* the bank a successful import adopts: shuffleArray(imported)
ImportedBanks(file) == shuffleArray(file.questions)

\* mutant of adoptImported: setStats({}) is forgotten
adoptImportedKeepsStats(file) ==
    /\ questionBank' \in ImportedBanks(file)
    /\ index' = 0
    /\ resetPerQuestionUI
    /\ UNCHANGED stats

\* the success branch of handleImportJSON
adoptImported(file) ==
    /\ questionBank' \in ImportedBanks(file)
    /\ index' = 0
    /\ resetPerQuestionUI
    /\ stats' = EmptyStats

\* handleImportJSON from the resolution of file.text() to its end, for the
\* file that was read
ImportResume(file) ==
    /\ mounted
    /\ pending > 0
    /\ pending' = pending - 1
    /\ LET outcome == ImportOutcome(file) IN
         IF outcome = "ok"
           THEN /\ adoptImported(file)
                /\ UNCHANGED importError
           ELSE /\ importError' = (IF outcome = "read" THEN ErrRead
                                   ELSE IF outcome = "structure" THEN ErrStructure
                                   ELSE ErrSchema)
                /\ UNCHANGED <<questionBank, index, selected, showAnswer,
                               showExplanation, stats>>
    /\ lastOp' = [op |-> "importResume", file |-> file]
    /\ UNCHANGED call
    /\ UNCHANGED <<mounted, showAccuracy>>
    /\ Persist(FALSE)

Next ==
    \/ Load
    \/ Reload
    \/ \E i \in ChoiceInputs : SelectChoice(i)
    \/ handleCheck
    \/ ToggleExplanation
    \/ ToggleAccuracy
    \/ handleNext
    \/ handleResetProgress
    \/ handleShuffle
    \/ \E hasFile \in BOOLEAN : ImportStart(hasFile)
    \/ \E file \in ImportFiles : ImportResume(file)

Spec == Init /\ [][Next]_vars

-----------------------------------------------------------------------------
(* The helper functions called on their own, as runDevTests calls them when *)
(* the module is loaded; no component is mounted, and its variables keep    *)
(* the values of their initialisers                                         *)

\* the idx arguments of clampIndex: integers on both sides of every length,
\* and a non-finite number
ClampIndexes == {Num(n) : n \in (0 - MaxLength - 1)..(MaxLength + 2)} \cup {NotFinite}

\* the length arguments of clampIndex
ClampLengths == -1..MaxLength

\* the arrays given to shuffleArray: every sequence of at most MaxShuffleLen
\* elements of 1..MaxShuffleLen (elements may repeat)
ShuffleInputs ==
    UNION { [1..n -> 1..MaxShuffleLen] : n \in 0..MaxShuffleLen }

\* candidates offered to the Validator: valid ones, and ones with one defect
ValidatorCandidates ==
    {Seed1, Seed2, ImpA, ImpB, ImpInf, ImpCtor,
     BadHigh, BadNeg, BadNoChoices, BadTopic, BadId, BadNull}

\* mutant of shuffleArrayCall: const out = arr, so that the loop writes to
\* the array of the caller and returns it
shuffleArrayInPlace(arr) ==
    { [fn |-> "shuffleArray", arr |-> arr, arrAfter |-> out, result |-> out,
       sameArray |-> TRUE] : out \in shuffleArray(arr) }

\* the calls b = shuffleArray(arr) may be: `const out = [...arr]` makes a new
\* array, the loop writes to out alone, and out is returned; arrAfter is the
\* array of the caller after the call
shuffleArrayCall(arr) ==
    { [fn |-> "shuffleArray", arr |-> arr, arrAfter |-> arr, result |-> out,
       sameArray |-> FALSE] : out \in shuffleArray(arr) }

HelperInit ==
    /\ mounted = FALSE
    /\ storage = NonObjectSnapshot("absent")
    /\ questionBank = initialQuestions
    /\ index = 0
    /\ selected = NoSelection
    /\ showAnswer = FALSE
    /\ showExplanation = FALSE
    /\ stats = EmptyStats
    /\ showAccuracy = FALSE
    /\ importError = ""
    /\ pending = 0
    /\ lastOp = Op("construct")
    /\ call = NoCall

CallClampIndex(idx, length) ==
    /\ call' = [fn |-> "clampIndex", idx |-> idx, length |-> length,
                result |-> clampIndex(idx, length)]
    /\ UNCHANGED <<mounted, storage, questionBank, index, selected, showAnswer,
                   showExplanation, stats, showAccuracy, importError, pending,
                   lastOp>>

CallShuffleArray(arr) ==
    /\ call' \in shuffleArrayCall(arr)
    /\ UNCHANGED <<mounted, storage, questionBank, index, selected, showAnswer,
                   showExplanation, stats, showAccuracy, importError, pending,
                   lastOp>>

CallIsValidQuestion(candidate) ==
    /\ call' = [fn |-> "isValidQuestion", q |-> candidate,
                result |-> isValidQuestion(candidate)]
    /\ UNCHANGED <<mounted, storage, questionBank, index, selected, showAnswer,
                   showExplanation, stats, showAccuracy, importError, pending,
                   lastOp>>

HelperNext ==
    \/ \E idx \in ClampIndexes, length \in ClampLengths :
          CallClampIndex(idx, length)
    \/ \E arr \in ShuffleInputs : CallShuffleArray(arr)
    \/ \E candidate \in ValidatorCandidates : CallIsValidQuestion(candidate)

HelperSpec == HelperInit /\ [][HelperNext]_vars

-----------------------------------------------------------------------------
(* Vocabulary of the properties *)

\* the number of places of the sequence a that hold x
Count(a, x) == Cardinality({i \in DOMAIN a : a[i] = x})

\* a and b hold the same elements, each as many times in a as in b
IsPermutation(a, b) ==
    /\ Len(a) = Len(b)
    /\ \A i \in DOMAIN a : Count(a, a[i]) = Count(b, a[i])

\* selected, revealed and explanationVisible have their defaults
TransientIsDefault ==
    /\ selected = NoSelection
    /\ showAnswer = FALSE
    /\ showExplanation = FALSE

\* the file cannot be imported: its text cannot be read or does not parse,
\* it is neither a sequence nor an object with a questions sequence, the
\* sequence is empty, or an element fails the Validator
FailsImport(file) ==
    \/ file.kind \in {"unreadable", "unparsable"}
    \/ file.kind \in {"scalar", "object"}
    \/ Len(file.questions) = 0
    \/ \E i \in DOMAIN file.questions : ~isValidQuestion(file.questions[i])

\* the file holds a non-empty sequence of valid questions, directly or under
\* a questions field
SucceedsImport(file) ==
    /\ file.kind \in {"array", "wrapped"}
    /\ Len(file.questions) > 0
    /\ \A i \in DOMAIN file.questions : isValidQuestion(file.questions[i])

\* the stored snapshot is absent, does not parse to an object, or its
\* questionBank is not an array of valid questions
SnapshotUnusable(snap) ==
    \/ snap.raw \in {"absent", "unparsable", "scalar"}
    \/ snap.bankKind /= "array"
    \/ \E i \in DOMAIN snap.questionBank : ~isValidQuestion(snap.questionBank[i])

\* the snapshot that holds exactly the bank b, the index i, the accuracy
\* flag f and the stats s, with schemaVersion 1
SnapshotOf(b, i, f, s) ==
    [raw |-> "object", bankKind |-> "array", questionBank |-> b,
     index |-> Num(i), showAccuracy |-> IF f THEN "true" ELSE "false",
     statsKind |-> IF s.array THEN "array" ELSE "object",
     stats |-> s.entries, schemaVersion |-> 1]

\* the answer of the question indexes one of its choices
AnswerIndexesChoice(question) ==
    0 <= question.answer /\ question.answer < question.nChoices

-----------------------------------------------------------------------------
(* Properties *)

\* C1: handleCheck invoked with no choice selected, or while the current
\* question is already revealed, changes nothing (so that one visit to a
\* question adds at most 1 to its topic's total).
C1_CheckRejectedUnlessSelectedAndHidden ==
    [][(lastOp'.op = "check" /\ CheckButtonDisabled)
         => UNCHANGED <<questionBank, index, selected, showAnswer,
                        showExplanation, stats, showAccuracy, storage>>]_vars

\* C2: an accepted CheckAnswer reveals the answer, and the stats afterwards
\* are the stats before except that the entry of the current question's topic
\* (taken as {correct: 0, total: 0} if missing) has total + 1, and correct + 1
\* exactly if the selected index is the question's answer.
C2_CheckRecordsOneAnswer ==
    [][(lastOp'.op = "check" /\ HasQuestion /\ ~CheckButtonDisabled)
         => LET t == q.topic
                old == IF t \in DOMAIN stats.entries
                         THEN stats.entries[t] ELSE Entry(0, 0)
                one == IF selected = q.answer THEN 1 ELSE 0
            IN /\ showAnswer' = TRUE
               /\ DOMAIN stats'.entries = DOMAIN stats.entries \cup {t}
               /\ stats'.entries[t] = Entry(old.correct + one, old.total + 1)
               /\ \A k \in DOMAIN stats.entries \ {t} :
                     stats'.entries[k] = stats.entries[k]]_vars

\* C3: an import that fails (and the start of any import) leaves the bank and
\* its order, the index, the stats and selected / revealed /
\* explanationVisible as they were.
C3_FailedImportChangesNothing ==
    [][(\/ lastOp'.op = "importStart"
        \/ lastOp'.op = "importResume" /\ FailsImport(lastOp'.file))
         => UNCHANGED <<questionBank, index, stats, selected, showAnswer,
                        showExplanation>>]_vars

\* a failed import (one invalid element among valid ones) has just ended in
\* a session with recorded answers, at index 1, with the answer revealed
C3_Witness ==
    /\ lastOp = [op |-> "importResume", file |-> File("array", <<ImpA, BadHigh>>)]
    /\ importError = ErrSchema
    /\ Len(questionBank) = 2
    /\ index = 1
    /\ showAnswer
    /\ stats /= EmptyStats

\* C4: an import of a non-empty sequence of valid questions makes the bank a
\* permutation of the imported questions, the index 0, selected / revealed /
\* explanationVisible their defaults and the stats empty.
C4_SuccessfulImportReplacesSession ==
    [][(lastOp'.op = "importResume" /\ SucceedsImport(lastOp'.file))
         => /\ IsPermutation(questionBank', lastOp'.file.questions)
            /\ index' = 0
            /\ TransientIsDefault'
            /\ stats' = EmptyStats]_vars

\* the import of {questions: [ImpA, ImpB]} has just ended, and the bank holds
\* the two questions in the other order
C4_Witness ==
    /\ lastOp = [op |-> "importResume", file |-> File("wrapped", <<ImpA, ImpB>>)]
    /\ questionBank = <<ImpB, ImpA>>
    /\ index = 0
    /\ stats = EmptyStats
    /\ TransientIsDefault

\* C5: whenever the bank is not empty, 0 <= index < bank.length.
C5_IndexInRange ==
    Len(questionBank) > 0 => (0 <= index /\ index < Len(questionBank))

\* Load has just adopted a stored bank with a stored index above its last
\* index (the only stored index that gives an index above 0)
C5_Witness ==
    /\ lastOp = Op("load")
    /\ questionBank = <<Seed2, Seed1>>
    /\ index = 1

\* C6: every entry of the stats has integers correct and total with
\* 0 <= correct <= total.
C6_StatsWellFormed ==
    \A k \in DOMAIN stats.entries :
        LET e == stats.entries[k] IN
          /\ e.num = "int"
          /\ 0 <= e.correct
          /\ 0 <= e.total
          /\ e.correct <= e.total

\* C7: a session that loads an absent snapshot, one that does not parse, or
\* one whose questionBank fails validation has the defaults: a permutation of
\* the seed questions, index 0, empty stats, the accuracy panel hidden, and
\* no error message.
C7_UnusableSnapshotGivesDefaults ==
    [][(lastOp'.op \in {"load", "reload"} /\ SnapshotUnusable(storage))
         => /\ IsPermutation(questionBank', initialQuestions)
            /\ index' = 0
            /\ stats' = EmptyStats
            /\ showAccuracy' = FALSE
            /\ importError' = ""]_vars

\* C8: a session started on the snapshot a session saved has that session's
\* bank in the same order, its index, its accuracy flag and its stats; and
\* the bank changes only by Shuffle, by an import, or when the first Load
\* adopts the stored bank.
C8_PersistenceRoundTrips ==
    [][/\ lastOp'.op = "reload"
            => /\ questionBank' = questionBank
               /\ index' = index
               /\ showAccuracy' = showAccuracy
               /\ stats' = stats
       /\ questionBank' /= questionBank
            => lastOp'.op \in {"shuffle", "importResume", "load"}]_vars

\* C9: Shuffle makes the bank a permutation of itself, the index 0 and
\* selected / revealed / explanationVisible their defaults, and leaves the
\* stats and the accuracy flag as they were.
C9_ShuffleKeepsStats ==
    [][lastOp'.op = "shuffle"
         => /\ IsPermutation(questionBank', questionBank)
            /\ index' = 0
            /\ TransientIsDefault'
            /\ stats' = stats
            /\ showAccuracy' = showAccuracy]_vars

\* Shuffle has just acted on a two-question bank of a session with recorded
\* answers and the accuracy panel shown
C9_Witness ==
    /\ lastOp = Op("shuffle")
    /\ Len(questionBank) = 2
    /\ index = 0
    /\ TransientIsDefault
    /\ stats /= EmptyStats
    /\ showAccuracy

\* C10: ResetProgress makes the index 0, selected / revealed /
\* explanationVisible their defaults and the stats empty, and leaves the bank,
\* its order and the accuracy flag as they were.
C10_ResetProgressKeepsBank ==
    [][lastOp'.op = "reset"
         => /\ index' = 0
            /\ TransientIsDefault'
            /\ stats' = EmptyStats
            /\ questionBank' = questionBank
            /\ showAccuracy' = showAccuracy]_vars

\* ResetProgress has just acted on a two-question bank whose order is not the
\* seed order, with the accuracy panel shown
C10_Witness ==
    /\ lastOp = Op("reset")
    /\ questionBank = <<Seed2, Seed1>>
    /\ index = 0
    /\ stats = EmptyStats
    /\ TransientIsDefault
    /\ showAccuracy

\* C11: Next on a non-empty bank makes the index (index + 1) mod bank.length
\* (0 from the last index) and selected / revealed / explanationVisible their
\* defaults, and leaves the bank and the stats as they were; Next on an empty
\* bank changes nothing.
C11_NextAdvancesAndWraps ==
    [][lastOp'.op = "next"
         => IF Len(questionBank) > 0
              THEN /\ index' = (index + 1) % Len(questionBank)
                   /\ index = Len(questionBank) - 1 => index' = 0
                   /\ TransientIsDefault'
                   /\ questionBank' = questionBank
                   /\ stats' = stats
              ELSE UNCHANGED <<questionBank, index, selected, showAnswer,
                               showExplanation, stats, showAccuracy,
                               importError, storage>>]_vars

\* Next has just wrapped from the last index of a two-question bank to 0, in
\* a session with recorded answers
C11_Witness ==
    /\ lastOp = Op("next")
    /\ Len(questionBank) = 2
    /\ index = 0
    /\ TransientIsDefault
    /\ stats /= EmptyStats

\* C12: SelectChoice(i) makes selected i while the current question is not
\* revealed and changes nothing once it is revealed; the selected choice of a
\* revealed question changes only by Next, Shuffle, ResetProgress or a
\* successful import (or when the page is reloaded, which ends the session).
C12_SelectionFrozenOnceRevealed ==
    [][/\ \A i \in ChoiceInputs :
             SelectChoice(i) => selected' = (IF showAnswer THEN selected ELSE i)
       /\ (lastOp'.op = "select" /\ showAnswer)
             => UNCHANGED <<questionBank, index, selected, showAnswer,
                            showExplanation, stats, showAccuracy, importError,
                            storage>>
       /\ (showAnswer /\ selected' /= selected)
             => \/ lastOp'.op \in {"next", "shuffle", "reset", "reload"}
                \/ /\ lastOp'.op = "importResume"
                   /\ SucceedsImport(lastOp'.file)]_vars

\* a choice button has just been pressed on a revealed question whose checked
\* choice was 3, and the selected choice is still 3
C12_Witness ==
    /\ lastOp = Op("select")
    /\ showAnswer
    /\ selected = 3
    /\ stats /= EmptyStats

\* C13: a failed import surfaces the message of its kind of failure: the
\* generic read/parse message when the text cannot be read or does not parse,
\* the structural message when the parsed data is no sequence and has no
\* questions sequence or when the sequence is empty, the schema message when
\* an element of a non-empty sequence fails the Validator.
C13_EachFailureHasItsMessage ==
    [][lastOp'.op = "importResume"
         => LET file == lastOp'.file IN
              /\ file.kind \in {"unreadable", "unparsable"}
                    => importError' = ErrRead
              /\ (\/ file.kind \in {"scalar", "object"}
                  \/ file.kind \in {"array", "wrapped"} /\ Len(file.questions) = 0)
                    => importError' = ErrStructure
              /\ (/\ file.kind \in {"array", "wrapped"}
                  /\ Len(file.questions) > 0
                  /\ ~EveryValid(file.questions))
                    => importError' = ErrSchema]_vars

\* C14: once Load has run, after every transition and its persistence write
\* the snapshot stored under the storage key holds exactly the in-memory bank
\* (same order), index, accuracy flag and stats, with schemaVersion 1.
C14_SnapshotFollowsState ==
    mounted => storage = SnapshotOf(questionBank, index, showAccuracy, stats)

\* C15: every question of the active bank has 0 <= answer < choices.length;
\* the Validator rejects every candidate whose answer is negative or not
\* below its number of choices (so every candidate without choices).
C15_AnswerIndexesChoice ==
    /\ \A i \in DOMAIN questionBank : AnswerIndexesChoice(questionBank[i])
    /\ \A c \in ValidatorCandidates :
          (c.obj /\ ~AnswerIndexesChoice(c)) => ~isValidQuestion(c)
    /\ \A c \in ValidatorCandidates :
          (c.obj /\ c.nChoices = 0) => ~isValidQuestion(c)

\* the active bank was adopted by an import, the current question is the one
\* whose answer is its last choice, and that choice has been checked
C15_Witness ==
    /\ questionBank = <<ImpA, ImpB>>
    /\ index = 1
    /\ selected = questionBank[2].nChoices - 1
    /\ showAnswer
    /\ stats = [array |-> FALSE, entries |-> [k \in {"Valves"} |-> Entry(1, 1)]]

\* C16: for every integer idx and every length, clampIndex(idx, length) is 0
\* when length <= 0; when length > 0 it lies in 0..length-1, is idx when idx
\* lies in that range, 0 when idx is negative and length-1 when idx is above
\* length-1.
C16_ClampIndexContract ==
    (call.fn = "clampIndex" /\ call.idx.finite)
      => LET idx == call.idx.val
             length == call.length
             r == call.result
         IN /\ length <= 0 => r = 0
            /\ length > 0 =>
                  /\ 0 <= r /\ r <= length - 1
                  /\ (0 <= idx /\ idx <= length - 1) => r = idx
                  /\ idx < 0 => r = 0
                  /\ idx > length - 1 => r = length - 1

\* clampIndex has just brought an index above the last one down to the last
\* index of the longest array
C16_Witness ==
    /\ call.fn = "clampIndex"
    /\ call.idx = Num(MaxLength + 2)
    /\ call.length = MaxLength
    /\ call.result = MaxLength - 1

\* C17: for every input sequence and every outcome of the random draws,
\* shuffleArray returns a new sequence of the length of its input that holds
\* the same elements, each as many times as the input, and the input is as it
\* was before the call.
C17_ShuffleArrayContract ==
    call.fn = "shuffleArray"
      => /\ ~call.sameArray
         /\ Len(call.result) = Len(call.arr)
         /\ IsPermutation(call.result, call.arr)
         /\ call.arrAfter = call.arr

\* shuffleArray has just returned an array with a repeated element in an
\* order that is not the order of its input
C17_Witness ==
    /\ call.fn = "shuffleArray"
    /\ call.arr = <<1, 2, 2>>
    /\ call.result = <<2, 2, 1>>
    /\ call.arrAfter = <<1, 2, 2>>

\* C18: Load on a stored object adopts the stats only if they are present and
\* an object that is not an array, and the accuracy flag only if it is a
\* boolean; otherwise the stats stay empty and the flag stays hidden, and in
\* either case a valid stored questionBank is adopted.
C18_LoadAdoptsFieldsIndividually ==
    [][(lastOp'.op \in {"load", "reload"} /\ storage.raw = "object")
         => /\ stats' = (IF storage.statsKind = "object"
                           THEN [array |-> FALSE, entries |-> storage.stats]
                           ELSE EmptyStats)
            /\ showAccuracy' = (IF storage.showAccuracy \in {"true", "false"}
                                  THEN storage.showAccuracy = "true"
                                  ELSE FALSE)
            /\ (storage.bankKind = "array" /\ EveryValid(storage.questionBank))
                  => questionBank' = storage.questionBank]_vars

\* C19: whatever ran between the start of an import and its resumption
\* (other operations, other imports), immediately after an import completes
\* successfully the last import error message is empty, the bank is a
\* permutation of that import's questions, the index is 0 and the stats are
\* empty.
C19_SuccessfulImportLeavesNoError ==
    [][(lastOp'.op = "importResume" /\ SucceedsImport(lastOp'.file))
         => /\ importError' = ""
            /\ IsPermutation(questionBank', lastOp'.file.questions)
            /\ index' = 0
            /\ stats' = EmptyStats]_vars

\* C20: in every reachable state a revealed answer implies a selected choice,
\* and the explanation is hidden immediately after every CheckAnswer, Next,
\* Shuffle, ResetProgress and successful import.
C20_RevealedImpliesSelected ==
    /\ [](showAnswer => selected /= NoSelection)
    /\ [][(\/ lastOp'.op \in {"check", "next", "shuffle", "reset"}
           \/ /\ lastOp'.op = "importResume"
              /\ SucceedsImport(lastOp'.file))
            => showExplanation' = FALSE]_vars

\* CheckAnswer has just recorded a second answer for the topic of the current
\* question: the choice is selected, the answer revealed and the explanation
\* hidden
C20_Witness ==
    /\ lastOp = Op("check")
    /\ showAnswer
    /\ selected = 3
    /\ showExplanation = FALSE
    /\ questionBank = <<Seed1, Seed2>>
    /\ index = 0
    /\ stats = [array |-> FALSE,
                entries |-> [k \in {"Physiology"} |-> Entry(2, 2)]]

=============================================================================
